---- MODULE Spec2Model ----
(***************************************************************************)
(* Model of neurokit2/ppg/ppg_analyze.py: the dispatcher ppg_analyze(data, *)
(* sampling_rate, method).  One behaviour of the model is one call: Init   *)
(* is the state on entry with the arguments bound, the actions are the     *)
(* statements of the body, and the call ends in pc = "done" with `result`  *)
(* holding either the returned value or the exception raised.              *)
(*                                                                         *)
(* Strings the code inspects character by character (method, which is      *)
(* lowercased, and column names, which are searched for a substring) are   *)
(* sequences of one-character strings.                                     *)
(***************************************************************************)
EXTENDS Integers, Sequences, FiniteSets, TLC

VARIABLES
    arg_method,     \* the argument `method` as the caller passed it
    method,         \* the local `method` (rebound by line 72)
    data,           \* the argument `data`
    sampling_rate,  \* the argument `sampling_rate`
    colnames,       \* local of the event-related branch
    duration,       \* local of the auto branch
    features,       \* local holding the extractor's table
    pc,             \* the line about to execute, or "done"
    cont,           \* the line that follows the pending extractor call
    branch,         \* the arm of the if/elif chain of lines 75-96 entered
    calls,          \* the extractor calls made so far, with their outcomes
    result          \* how the call ended: a returned value or an exception

vars == <<arg_method, method, data, sampling_rate, colnames, duration,
          features, pc, cont, branch, calls, result>>

(***************************************************************************)
(* Bounds of the model.                                                    *)
(***************************************************************************)
\* largest number of members of a mapping input
MaxMembers == 3
\* label values of an epoch-label column are 0..MaxLabel
MaxLabel == 1

(***************************************************************************)
(* str.lower()                                                             *)
(***************************************************************************)
UpperAlpha == <<"A","B","C","D","E","F","G","H","I","J","K","L","M",
                "N","O","P","Q","R","S","T","U","V","W","X","Y","Z">>
LowerAlpha == <<"a","b","c","d","e","f","g","h","i","j","k","l","m",
                "n","o","p","q","r","s","t","u","v","w","x","y","z">>

LowerChar(c) ==
    IF \E i \in 1..Len(UpperAlpha) : UpperAlpha[i] = c
    THEN LowerAlpha[CHOOSE i \in 1..Len(UpperAlpha) : UpperAlpha[i] = c]
    ELSE c

UpperChar(c) ==
    IF \E i \in 1..Len(LowerAlpha) : LowerAlpha[i] = c
    THEN UpperAlpha[CHOOSE i \in 1..Len(LowerAlpha) : LowerAlpha[i] = c]
    ELSE c

\* a mutant of Lower: the normalisation is dropped
LowerIdentity(s) == s

\* method.lower(), line 72
Lower(s) == [i \in 1..Len(s) |-> LowerChar(s[i])]

(***************************************************************************)
(* The three groups of method names.                                       *)
(***************************************************************************)
EventRelated    == <<"e","v","e","n","t","-","r","e","l","a","t","e","d">>
Event           == <<"e","v","e","n","t">>
Epoch           == <<"e","p","o","c","h">>
IntervalRelated == <<"i","n","t","e","r","v","a","l","-","r","e","l","a","t","e","d">>
Interval        == <<"i","n","t","e","r","v","a","l">>
RestingState    == <<"r","e","s","t","i","n","g","-","s","t","a","t","e">>
Auto            == <<"a","u","t","o">>

EventGroup == {EventRelated, Event, Epoch}

\* a mutant of IntervalGroup: a synonym is missing
IntervalGroupShort == {IntervalRelated, Interval}

IntervalGroup == {IntervalRelated, Interval, RestingState}

AutoGroup == {Auto}

(***************************************************************************)
(* Column names and the two tests the code applies to them.                *)
(***************************************************************************)
Label      == <<"L","a","b","e","l">>
PPG_Rate   == <<"P","P","G","_","R","a","t","e">>
EventLabel == <<"E","v","e","n","t","L","a","b","e","l">>
labelLower == <<"l","a","b","e","l">>

\* `sub in s` for two strings: sub occurs in s as a substring
Contains(sub, s) ==
    \E i \in 1..(Len(s) - Len(sub) + 1) :
        SubSeq(s, i, i + Len(sub) - 1) = sub

\* [i for i in colnames if "Label" in i], line 83
LabelMarked(cols) == {c \in cols : Contains(Label, c)}

\* "Label" in data.columns, line 107: a column named exactly "Label"
HasLabelColumn(tbl) == Label \in tbl.columns

(***************************************************************************)
(* Input data.  A table (pd.DataFrame) is its set of column names, its row *)
(* count and, when it has a column named "Label", that column's dtype and  *)
(* the number of rows carrying each label value.  Label values are the     *)
(* numbers 0..MaxLabel: in an int64 column the value k is the integer k,   *)
(* in an object column it is the string str(k) (what epochs_to_df writes). *)
(***************************************************************************)
RowCounts   == {0, 9, 10, 11, 20, 2000, 20000}
LabelCounts == {5, 10, 20000}
MemberRows  == {10, 2000, 20000}
\* sampling rates are positive (docstring, lines 22-24)
SamplingRates == {1, 2, 1000}

NoLabel == [dtype |-> "none", counts |-> <<>>]

RECURSIVE SumCounts(_)
SumCounts(f) ==
    IF DOMAIN f = {} THEN 0
    ELSE LET k == CHOOSE k \in DOMAIN f : TRUE
         IN  f[k] + SumCounts([j \in DOMAIN f \ {k} |-> f[j]])

CountFunctions == UNION {[D -> LabelCounts] : D \in SUBSET (0..MaxLabel)}

PlainColumnSets == {{}, {PPG_Rate}, {PPG_Rate, EventLabel}, {PPG_Rate, labelLower}}
LabelColumnSets == {{PPG_Rate, Label}, {Label, EventLabel}}

PlainTables ==
    {[columns |-> c, nrows |-> n, labels |-> NoLabel] :
        c \in PlainColumnSets, n \in RowCounts}

LabelTables ==
    {[columns |-> c, nrows |-> SumCounts(f),
      labels |-> [dtype |-> t, counts |-> f]] :
        c \in LabelColumnSets, t \in {"int64", "object"}, f \in CountFunctions}

Tables == PlainTables \cup LabelTables

\* one epoch as epochs_create builds it: a constant Label column, or none
MemberTables ==
    {[columns |-> {PPG_Rate}, nrows |-> n, labels |-> NoLabel] : n \in MemberRows}
    \cup
    {[columns |-> {PPG_Rate, Label}, nrows |-> n,
      labels |-> [dtype |-> "object", counts |-> [k \in {0} |-> n]]] :
        n \in MemberRows}

\* a dict is the sequence of its values in iteration order
Mappings == UNION {[1..n -> MemberTables] : n \in 0..MaxMembers}

Inputs ==
    {[kind |-> "dict", members |-> m] : m \in Mappings}
    \cup {[kind |-> "DataFrame", table |-> t] : t \in Tables}
    \cup {[kind |-> "other"]}

\* isinstance(data, dict), lines 77 and 98
IsDict(d) == d.kind = "dict"

\* isinstance(data, pd.DataFrame), lines 80 and 106
IsDataFrame(d) == d.kind = "DataFrame"

(***************************************************************************)
(* Method arguments: every casing of "auto" and of "epoch", some casings   *)
(* of the other recognised names, and names outside the three groups.      *)
(***************************************************************************)
RECURSIVE Casings(_)
Casings(s) ==
    IF s = <<>> THEN {<<>>}
    ELSE {<<c>> \o t : c \in {Head(s), UpperChar(Head(s))}, t \in Casings(Tail(s))}

Upper(s) == [i \in 1..Len(s) |-> UpperChar(s[i])]
Capitalized(s) == <<UpperChar(Head(s))>> \o Tail(s)

Recognized ==
    {EventRelated, Event, Epoch, IntervalRelated, Interval, RestingState, Auto}

UnrecognizedMethods ==
    { <<>>,
      <<"a","u","t","o","m","a","t","i","c">>,
      <<"e","v","e","n","t","s">>,
      <<"e","v","e","n","t","_","r","e","l","a","t","e","d">>,
      <<"I","N","T","E","R","V","A","L","S">>,
      <<"r","e","s","t","i","n","g">>,
      <<"a","u","t","o"," ">> }

Methods ==
    Casings(Auto) \cup Casings(Epoch)
    \cup Recognized
    \cup {Upper(m) : m \in Recognized}
    \cup {Capitalized(m) : m \in Recognized}
    \cup UnrecognizedMethods

(***************************************************************************)
(* Local variables are unbound until assigned.                             *)
(***************************************************************************)
UnboundColnames == [bound |-> FALSE, val |-> {}]
UnboundDuration == [bound |-> FALSE, val |-> [num |-> 0, den |-> 1]]
UnboundFeatures == [bound |-> FALSE, val |-> "unbound"]
Bind(v) == [bound |-> TRUE, val |-> v]

\* what a collaborator can hand back: some table, opaque to the dispatcher
FeatureTables == {"features_1", "features_2"}

NoResult == [kind |-> "none", value |-> "none"]
Returned(v) == [kind |-> "return", value |-> v]
Raised(e) == [kind |-> "raise", value |-> e]

(***************************************************************************)
(* The computations of the body.                                           *)
(***************************************************************************)
\* for i in data: colnames = data[i].columns.values    (lines 78-79)
RECURSIVE ColnamesLoop(_, _)
ColnamesLoop(members, acc) ==
    IF members = <<>> THEN acc
    ELSE ColnamesLoop(Tail(members), Bind(Head(members).columns))

\* lines 77-81: colnames is assigned from the members of a dict, or from a
\* DataFrame, and stays unbound for anything else
SanityColnames(d) ==
    IF IsDict(d) THEN ColnamesLoop(d.members, UnboundColnames)
    ELSE IF IsDataFrame(d) THEN Bind(d.table.columns)
    ELSE UnboundColnames

\* len(x) / sampling_rate: true division, kept as an exact fraction
Divide(n, sr) == [num |-> n, den |-> sr]

\* the threshold of lines 101 and 112, in seconds
Threshold == 10

\* a mutant of AtLeastThreshold: a strict comparison
AboveThreshold(d) == d.num > Threshold * d.den

\* duration >= 10 (lines 101, 112), for a positive denominator
AtLeastThreshold(d) == d.num >= Threshold * d.den

\* a mutant of DurationLoop: the first member's duration is kept
DurationLoopFirst(members, sr, acc) ==
    IF members = <<>> THEN acc ELSE Bind(Divide(Head(members).nrows, sr))

\* a mutant of DurationLoop: duration starts at 0 instead of unbound
RECURSIVE DurationLoopDefault(_, _, _)
DurationLoopDefault(members, sr, acc) ==
    IF members = <<>>
    THEN (IF acc.bound THEN acc ELSE Bind(Divide(0, sr)))
    ELSE DurationLoopDefault(Tail(members), sr,
                             Bind(Divide(Head(members).nrows, sr)))

\* for i in data: duration = len(data[i]) / sampling_rate    (lines 99-100)
RECURSIVE DurationLoop(_, _, _)
DurationLoop(members, sr, acc) ==
    IF members = <<>> THEN acc
    ELSE DurationLoop(Tail(members), sr, Bind(Divide(Head(members).nrows, sr)))

\* Series.value_counts(): (label, count) pairs by decreasing count
RECURSIVE ValueCounts(_)
ValueCounts(f) ==
    IF DOMAIN f = {} THEN <<>>
    ELSE LET k == CHOOSE k \in DOMAIN f :
                    \A j \in DOMAIN f : f[j] < f[k] \/ (f[j] = f[k] /\ k <= j)
         IN  <<[label |-> k, count |-> f[k]]>>
             \o ValueCounts([j \in DOMAIN f \ {k} |-> f[j]])

\* data["Label"].value_counts()[0], line 108.  The result of value_counts
\* is indexed by the label values.  With an integer index `[0]` looks up
\* the label 0 (KeyError when no row carries it); with any other index the
\* key 0 is taken as a position, the first entry (IndexError when empty);
\* this positional fallback is that of the pandas releases with which
\* `value_counts()[0]` on string labels returns a count at all.
EpochLen(labels) ==
    LET vc == ValueCounts(labels.counts)
    IN  IF labels.dtype = "int64"
        THEN IF \E i \in 1..Len(vc) : vc[i].label = 0
             THEN [ok |-> TRUE, val |-> labels.counts[0], err |-> "none"]
             ELSE [ok |-> FALSE, val |-> 0, err |-> "KeyError"]
        ELSE IF Len(vc) > 0
             THEN [ok |-> TRUE, val |-> vc[1].count, err |-> "none"]
             ELSE [ok |-> FALSE, val |-> 0, err |-> "IndexError"]

(***************************************************************************)
(* The call.                                                               *)
(***************************************************************************)
\* entry of ppg_analyze (line 8): arguments bound, locals unbound
Init ==
    /\ arg_method \in Methods
    /\ method = arg_method
    /\ data \in Inputs
    /\ sampling_rate \in SamplingRates
    /\ colnames = UnboundColnames
    /\ duration = UnboundDuration
    /\ features = UnboundFeatures
    /\ pc = "line72"
    /\ cont = "none"
    /\ branch = "none"
    /\ calls = <<>>
    /\ result = NoResult

\* an exception leaves the function: nothing is returned
Raise(e) ==
    /\ pc' = "done"
    /\ result' = Raised(e)

\* line 72: method = method.lower()
Normalize ==
    /\ pc = "line72"
    /\ method' = Lower(method)
    /\ pc' = "line75"
    /\ UNCHANGED <<branch, arg_method, data, sampling_rate, colnames, duration,
                   features, cont, calls, result>>

\* lines 75-88: the event-related branch up to the call of the extractor
EventRelatedCheck ==
    /\ pc = "line75"
    /\ method \in EventGroup
    /\ LET cn == SanityColnames(data)
       IN  /\ colnames' = cn
           /\ IF ~cn.bound
              THEN Raise("UnboundLocalError") /\ UNCHANGED cont
              ELSE IF Cardinality(LabelMarked(cn.val)) = 0
              THEN Raise("ValueError") /\ UNCHANGED cont
              ELSE pc' = "call_eventrelated" /\ cont' = "line117"
                   /\ UNCHANGED result
    /\ branch' = "event-related"
    /\ UNCHANGED <<arg_method, method, data, sampling_rate, duration,
                   features, calls>>

\* line 92: the interval-related branch up to the call of the extractor
IntervalRelatedBranch ==
    /\ pc = "line75"
    /\ method \notin EventGroup
    /\ method \in IntervalGroup
    /\ pc' = "call_intervalrelated"
    /\ cont' = "line117"
    /\ branch' = "interval-related"
    /\ UNCHANGED <<arg_method, method, data, sampling_rate, colnames,
                   duration, features, calls, result>>

\* lines 96-104: the auto branch for a dict, up to the call of the extractor
AutoDict ==
    /\ pc = "line75"
    /\ method \notin EventGroup
    /\ method \notin IntervalGroup
    /\ method \in AutoGroup
    /\ IF IsDict(data)
       THEN LET d == DurationLoop(data.members, sampling_rate, duration)
            IN  /\ duration' = d
                /\ IF ~d.bound
                   THEN Raise("UnboundLocalError") /\ UNCHANGED cont
                   ELSE /\ pc' = IF AtLeastThreshold(d.val)
                                 THEN "call_intervalrelated"
                                 ELSE "call_eventrelated"
                        /\ cont' = "line106"
                        /\ UNCHANGED result
       ELSE /\ pc' = "line106"
            /\ UNCHANGED <<duration, cont, result>>
    /\ branch' = "auto"
    /\ UNCHANGED <<arg_method, method, data, sampling_rate, colnames,
                   features, calls>>

\* lines 106-115: the auto branch for a DataFrame, up to the call
AutoDataFrame ==
    /\ pc = "line106"
    /\ IF IsDataFrame(data)
       THEN IF HasLabelColumn(data.table)
            THEN LET epoch_len == EpochLen(data.table.labels)
                 IN  IF ~epoch_len.ok
                     THEN Raise(epoch_len.err) /\ UNCHANGED <<duration, cont>>
                     ELSE LET d == Divide(epoch_len.val, sampling_rate)
                          IN  /\ duration' = Bind(d)
                              /\ pc' = IF AtLeastThreshold(d)
                                       THEN "call_intervalrelated"
                                       ELSE "call_eventrelated"
                              /\ cont' = "line117"
                              /\ UNCHANGED result
            ELSE LET d == Divide(data.table.nrows, sampling_rate)
                 IN  /\ duration' = Bind(d)
                     /\ pc' = IF AtLeastThreshold(d)
                              THEN "call_intervalrelated"
                              ELSE "call_eventrelated"
                     /\ cont' = "line117"
                     /\ UNCHANGED result
       ELSE /\ pc' = "line117"
            /\ UNCHANGED <<duration, cont, result>>
    /\ UNCHANGED <<branch, arg_method, method, data, sampling_rate, colnames,
                   features, calls>>

\* no branch of the if/elif chain of lines 75-96 matches
NoBranch ==
    /\ pc = "line75"
    /\ method \notin EventGroup
    /\ method \notin IntervalGroup
    /\ method \notin AutoGroup
    /\ pc' = "line117"
    /\ branch' = "unrecognized"
    /\ UNCHANGED <<arg_method, method, data, sampling_rate, colnames,
                   duration, features, cont, calls, result>>

\* features = ppg_eventrelated(data)    (lines 89, 104, 115): the extractor
\* hands back some table, or fails and its exception propagates
CallEventRelated ==
    /\ pc = "call_eventrelated"
    /\ \/ \E t \in FeatureTables :
            /\ calls' = Append(calls, [fn |-> "ppg_eventrelated", data |-> data,
                                       rate_passed |-> FALSE,
                                       sampling_rate |-> 0,
                                       out |-> Returned(t)])
            /\ features' = Bind(t)
            /\ pc' = cont
            /\ UNCHANGED result
       \/ /\ calls' = Append(calls, [fn |-> "ppg_eventrelated", data |-> data,
                                     rate_passed |-> FALSE,
                                     sampling_rate |-> 0,
                                     out |-> Raised("ExtractorError")])
          /\ Raise("ExtractorError")
          /\ UNCHANGED features
    /\ UNCHANGED <<branch, arg_method, method, data, sampling_rate, colnames,
                   duration, cont>>

\* features = ppg_intervalrelated(data, sampling_rate=sampling_rate)
\* (lines 93, 102, 113)
CallIntervalRelated ==
    /\ pc = "call_intervalrelated"
    /\ \/ \E t \in FeatureTables :
            /\ calls' = Append(calls, [fn |-> "ppg_intervalrelated",
                                       data |-> data,
                                       rate_passed |-> TRUE,
                                       sampling_rate |-> sampling_rate,
                                       out |-> Returned(t)])
            /\ features' = Bind(t)
            /\ pc' = cont
            /\ UNCHANGED result
       \/ /\ calls' = Append(calls, [fn |-> "ppg_intervalrelated",
                                     data |-> data,
                                     rate_passed |-> TRUE,
                                     sampling_rate |-> sampling_rate,
                                     out |-> Raised("ExtractorError")])
          /\ Raise("ExtractorError")
          /\ UNCHANGED features
    /\ UNCHANGED <<branch, arg_method, method, data, sampling_rate, colnames,
                   duration, cont>>

\* a mutant of Return: an unbound `features` is returned as an empty table
ReturnDefault ==
    /\ pc = "line117"
    /\ pc' = "done"
    /\ result' = IF features.bound THEN Returned(features.val)
                 ELSE Returned("empty")
    /\ UNCHANGED <<branch, arg_method, method, data, sampling_rate, colnames,
                   duration, features, cont, calls>>

\* line 117: return features
Return ==
    /\ pc = "line117"
    /\ IF features.bound
       THEN pc' = "done" /\ result' = Returned(features.val)
       ELSE Raise("UnboundLocalError")
    /\ UNCHANGED <<branch, arg_method, method, data, sampling_rate, colnames,
                   duration, features, cont, calls>>

Next ==
    \/ Normalize
    \/ EventRelatedCheck
    \/ IntervalRelatedBranch
    \/ AutoDict
    \/ AutoDataFrame
    \/ NoBranch
    \/ CallEventRelated
    \/ CallIntervalRelated
    \/ Return

Spec == Init /\ [][Next]_vars

(***************************************************************************)
(* Vocabulary of the properties.                                           *)
(***************************************************************************)
Done == pc = "done"

EventNames    == {EventRelated, Event, Epoch}
IntervalNames == {IntervalRelated, Interval, RestingState}
AutoNames     == {Auto}

\* a is b up to the case of its letters; b is a lowercase name
SameIgnoringCase(a, b) ==
    /\ Len(a) = Len(b)
    /\ \A i \in 1..Len(a) : a[i] = b[i] \/ a[i] = UpperChar(b[i])

IsCasingOf(a, names) == \E b \in names : SameIgnoringCase(a, b)

\* the tables of the input: the members of a dict, or the single table
TablesOf(d) ==
    IF IsDict(d) THEN {d.members[i] : i \in 1..Len(d.members)}
    ELSE IF IsDataFrame(d) THEN {d.table}
    ELSE {}

HasMarkedColumn(tbl) == \E c \in tbl.columns : Contains(Label, c)

LastMember(d) == d.members[Len(d.members)]

RECURSIVE SumRows(_)
SumRows(members) ==
    IF members = <<>> THEN 0 ELSE Head(members).nrows + SumRows(Tail(members))

\* number of rows carrying the most frequent label value
MostFrequentCount(f) == CHOOSE n \in {f[k] : k \in DOMAIN f} : \A k \in DOMAIN f : f[k] <= n

\* the call made exactly one extractor call, to fn, and ended as it ended
OnlyCall(fn) ==
    /\ Len(calls) = 1
    /\ calls[1].fn = fn
    /\ calls[1].data = data
    /\ result = calls[1].out

EventCall == OnlyCall("ppg_eventrelated") /\ ~calls[1].rate_passed

IntervalCall ==
    /\ OnlyCall("ppg_intervalrelated")
    /\ calls[1].rate_passed
    /\ calls[1].sampling_rate = sampling_rate

(***************************************************************************)
(* C1: with a method of the event-related group and data (a table, or a    *)
(* mapping with any number of members) in which no column name contains    *)
(* "Label", the call raises the ValueError and no extractor is invoked.    *)
(* Stated as claimed; the code raises UnboundLocalError for an empty dict. *)
(***************************************************************************)
C1_StructuralMismatch ==
    (/\ Done
     /\ arg_method \in EventNames
     /\ IsDict(data) \/ IsDataFrame(data)
     /\ \A t \in TablesOf(data) : ~HasMarkedColumn(t))
    => (result = Raised("ValueError") /\ calls = <<>>)

(***************************************************************************)
(* C2: with a method of the event-related group, whenever some member of   *)
(* the mapping (at any position) or the single table has a column whose    *)
(* name contains "Label", the Event-Related Extractor is invoked with data *)
(* and its table is what the call returns.  Stated as claimed; the code    *)
(* looks at the last member only.                                          *)
(***************************************************************************)
C2_AnyMemberLabelSuffices ==
    (/\ Done
     /\ arg_method \in EventNames
     /\ \E t \in TablesOf(data) : HasMarkedColumn(t))
    => EventCall

(***************************************************************************)
(* C3: with a method of the interval-related group, for every data and     *)
(* sampling_rate, the Interval-Related Extractor is invoked with (data,    *)
(* sampling_rate), nothing is checked first (colnames is never computed,   *)
(* no ValueError), the Event-Related Extractor is not invoked, and the     *)
(* call ends exactly as the extractor's call ended.                        *)
(***************************************************************************)
C3_IntervalDelegates ==
    (Done /\ arg_method \in IntervalNames)
    => (/\ IntervalCall
        /\ ~colnames.bound
        /\ branch = "interval-related")

C3_Witness ==
    /\ Done
    /\ arg_method = RestingState
    /\ IsDataFrame(data)
    /\ ~HasMarkedColumn(data.table)
    /\ IntervalCall
    /\ result.kind = "return"

(***************************************************************************)
(* C4: method "auto", a single table without a Label column: the duration  *)
(* is row_count / sampling_rate and the Interval-Related Extractor is      *)
(* invoked iff duration >= 10 (exactly 10 seconds included), otherwise the *)
(* Event-Related Extractor; 20000 rows at 1000 Hz go to the interval one.  *)
(***************************************************************************)
C4_AutoPlainTable ==
    (/\ Done
     /\ arg_method \in AutoNames
     /\ IsDataFrame(data)
     /\ Label \notin data.table.columns)
    => (/\ duration = Bind([num |-> data.table.nrows, den |-> sampling_rate])
        /\ IF data.table.nrows >= 10 * sampling_rate
           THEN IntervalCall ELSE EventCall
        /\ (data.table.nrows = 20000 /\ sampling_rate = 1000) => IntervalCall)

C4_Witness ==
    /\ Done
    /\ arg_method = Auto
    /\ IsDataFrame(data)
    /\ Label \notin data.table.columns
    /\ data.table.nrows = 10 * sampling_rate
    /\ IntervalCall

(***************************************************************************)
(* C5: method "auto", a single table with a Label column: the duration is  *)
(* (rows of the most frequent label value) / sampling_rate whatever the    *)
(* label values are, and the route follows duration >= 10.  Stated as      *)
(* claimed; with integer labels the code takes the rows of the label 0.    *)
(***************************************************************************)
C5_MostFrequentLabel ==
    (/\ Done
     /\ arg_method \in AutoNames
     /\ IsDataFrame(data)
     /\ Label \in data.table.columns
     /\ data.table.nrows > 0)
    => (/\ duration = Bind([num |-> MostFrequentCount(data.table.labels.counts),
                            den |-> sampling_rate])
        /\ IF MostFrequentCount(data.table.labels.counts) >= 10 * sampling_rate
           THEN IntervalCall ELSE EventCall)

C7_MeanDurationDecides ==
    (/\ Done
     /\ arg_method \in AutoNames
     /\ IsDict(data)
     /\ Len(data.members) > 0)
    => IF SumRows(data.members) < 10 * sampling_rate * Len(data.members)
       THEN EventCall ELSE IntervalCall

(***************************************************************************)
(* C8: a method that, lowercased, is in none of the three groups makes the *)
(* call invoke no extractor, leave `features` unassigned and deliver no    *)
(* table (the read of `features` at the return fails); every casing of a   *)
(* recognised name takes the arm of its lowercase form.                    *)
(***************************************************************************)
C8_MethodRecognition ==
    Done =>
      /\ ~IsCasingOf(arg_method, EventNames \cup IntervalNames \cup AutoNames)
           => (/\ calls = <<>>
               /\ ~features.bound
               /\ branch = "unrecognized"
               /\ result = Raised("UnboundLocalError"))
      /\ IsCasingOf(arg_method, EventNames) => branch = "event-related"
      /\ IsCasingOf(arg_method, IntervalNames) => branch = "interval-related"
      /\ IsCasingOf(arg_method, AutoNames) => branch = "auto"

C8_Witness ==
    /\ Done
    /\ ~IsCasingOf(arg_method, EventNames \cup IntervalNames \cup AutoNames)
    /\ arg_method # <<>>
    /\ IsDataFrame(data)
    /\ HasMarkedColumn(data.table)
    /\ result = Raised("UnboundLocalError")

(***************************************************************************)
(* C9: in every call at most one extractor call is made; a call that       *)
(* returns has made exactly one and returns its table unchanged; a failure *)
(* of the extractor or of the structural check ends the call with that     *)
(* failure and no result; and data is never modified.                      *)
(***************************************************************************)
C9_State ==
    /\ Len(calls) <= 1
    /\ (Done /\ result.kind = "return")
         => (Len(calls) = 1 /\ result = calls[1].out)
    /\ (Len(calls) = 1 /\ calls[1].out.kind = "raise")
         => (Done /\ result = calls[1].out /\ ~features.bound)
    /\ result = Raised("ValueError") => (Done /\ calls = <<>> /\ ~features.bound)
    /\ Done <=> result # NoResult
    /\ \A i \in 1..Len(calls) : calls[i].data = data

C9_SingleDelegation == [][data' = data /\ C9_State']_vars

C9_Witness ==
    /\ Done
    /\ Len(calls) = 1
    /\ calls[1].out = Raised("ExtractorError")
    /\ result = Raised("ExtractorError")
    /\ branch = "auto"

(***************************************************************************)
(* C10: method "auto" with an empty mapping, or with data that is neither  *)
(* a mapping nor a table: the call fails on the read of an unassigned      *)
(* local (`duration`, resp. `features`), no extractor is invoked and no    *)
(* table is returned.                                                      *)
(***************************************************************************)
C10_AutoNothingToDecide ==
    (/\ Done
     /\ arg_method \in AutoNames
     /\ (IsDict(data) /\ data.members = <<>>) \/ (~IsDict(data) /\ ~IsDataFrame(data)))
    => (/\ calls = <<>>
        /\ ~duration.bound
        /\ ~features.bound
        /\ result = Raised("UnboundLocalError"))

C10_Witness ==
    /\ Done
    /\ arg_method = Auto
    /\ IsDict(data)
    /\ data.members = <<>>
    /\ result = Raised("UnboundLocalError")

====
